---- MODULE Spec2Model ----
(***************************************************************************)
(* Model of the grocery list API (src/server.js, the multi-list server     *)
(* with reordering, lines 133-308).                                        *)
(*                                                                         *)
(* The persisted store is the file database.json.  Every handler is an     *)
(* async function: it awaits readDatabase (fs.readFile + JSON.parse, with  *)
(* a lazy write of the default document on ENOENT), mutates the parsed     *)
(* document in memory, awaits writeDatabase (fs.writeFile, which opens the *)
(* file with flag 'w', truncating it, and then writes the serialised       *)
(* document at offset 0) and responds.  Each await is a point where        *)
(* another request's steps may interleave; the code between two awaits     *)
(* runs without interruption.                                              *)
(*                                                                         *)
(* The content of the file is kept as the document it parses to, its       *)
(* length in bytes and whether it parses at all: JSON.parse of             *)
(* JSON.stringify is the identity on the documents the handlers build      *)
(* (integers, booleans, strings), while an empty file, or a document       *)
(* followed by the tail of a longer one, makes JSON.parse throw.           *)
(* Strings are sequences of characters, so that trim and parseInt are      *)
(* computed.  prev, repeatOf, before, follows, lastSave, raced and issued  *)
(* are history variables: no handler reads them.                           *)
(***************************************************************************)
EXTENDS Integers, Sequences, FiniteSets, TLC

\* ------------------------------------------------------------------ bounds
MaxLists == 2
MaxItems == 2
\* A second configuration: more lists, fewer items.
MaxListsWide == 3
MaxItemsFew  == 1
MaxId    == 3
MaxPos   == 2
MaxOrd   == 2

\* ---------------------------------------------------------------- values
Procs == {"p1", "p2"}

NaN == -1000

Max(S) == CHOOSE x \in S : \A y \in S : y <= x

Range(s) == {s[i] : i \in 1..Len(s)}

\* A request value of the JSON body: a string (a sequence of characters),
\* a number, or a missing field.
Str(s) == [t |-> "string", s |-> s]
Num    == [t |-> "number", s |-> <<>>]
Undef  == [t |-> "undefined", s |-> <<>>]

Digits == <<"0", "1", "2", "3", "4", "5", "6", "7", "8", "9">>

DigitVal(c) == CHOOSE d \in 0..9 : Digits[d + 1] = c

IsDigit(c) == \E d \in 0..9 : Digits[d + 1] = c

\* parseInt(s, 10) on a route parameter: the value of the longest prefix of
\* decimal digits, NaN when there is none.
RECURSIVE ParseDigits(_, _)
ParseDigits(s, acc) ==
    IF s = <<>> \/ ~IsDigit(Head(s)) THEN acc
    ELSE ParseDigits(Tail(s), 10 * acc + DigitVal(Head(s)))

ParseInt(s) ==
    IF s = <<>> \/ ~IsDigit(Head(s)) THEN NaN ELSE ParseDigits(s, 0)

\* String.prototype.trim: leading and trailing white space removed.
RECURSIVE TrimLeft(_)
TrimLeft(s) ==
    IF s # <<>> /\ Head(s) = " " THEN TrimLeft(Tail(s)) ELSE s

RECURSIVE TrimRight(_)
TrimRight(s) ==
    IF s # <<>> /\ s[Len(s)] = " " THEN TrimRight(SubSeq(s, 1, Len(s) - 1))
    ELSE s

Trim(s) == TrimRight(TrimLeft(s))

\* Number of decimal digits of a non-negative integer.
RECURSIVE NumLen(_)
NumLen(n) == IF n < 10 THEN 1 ELSE 1 + NumLen(n \div 10)

\* UTF-8 bytes of a character: the a-ring of the default list name takes two.
CharBytes(c) == IF c = "a-ring" THEN 2 ELSE 1

RECURSIVE StrBytes(_)
StrBytes(s) == IF s = <<>> THEN 0 ELSE CharBytes(Head(s)) + StrBytes(Tail(s))

\* ------------------------------------------------------------- documents
\* "Småhandling", one element per character.
DefaultName ==
    <<"S", "m", "a-ring", "h", "a", "n", "d", "l", "i", "n", "g">>

initialData == [lists |-> <<[id |-> 1, name |-> DefaultName, items |-> <<>>]>>]

EmptyDoc == [lists |-> <<>>]

\* Bytes of JSON.stringify(item, null, 2) nested at the items level.
ItemBytes(it) ==
    97 + NumLen(it.id) + StrBytes(it.name)
       + (IF it.checked THEN 4 ELSE 5) + NumLen(it.position)

RECURSIVE SumItemBytes(_)
SumItemBytes(items) ==
    IF items = <<>> THEN 0
    ELSE 8 + ItemBytes(Head(items)) + SumItemBytes(Tail(items))

ItemsBytes(items) ==
    IF items = <<>> THEN 2
    ELSE 2 + SumItemBytes(items) + 2 * (Len(items) - 1) + 8

ListBytes(l) == 55 + NumLen(l.id) + StrBytes(l.name) + ItemsBytes(l.items)

RECURSIVE SumListBytes(_)
SumListBytes(lists) ==
    IF lists = <<>> THEN 0
    ELSE 4 + ListBytes(Head(lists)) + SumListBytes(Tail(lists))

ListsBytes(lists) ==
    IF lists = <<>> THEN 2
    ELSE 2 + SumListBytes(lists) + 2 * (Len(lists) - 1) + 4

\* Length in bytes of JSON.stringify(data, null, 2) as written to the file.
StringifyBytes(data) == 2 + 11 + ListsBytes(data.lists) + 2

\* l.find(x => x.id === id): index of the first match, 0 when there is none.
FindIndex(s, id) ==
    IF \E i \in 1..Len(s) : s[i].id = id
    THEN CHOOSE i \in 1..Len(s) : s[i].id = id /\ \A j \in 1..(i - 1) : s[j].id # id
    ELSE 0

\* Mutant of InsertByPosition: an item goes before the items of its position.
RECURSIVE InsertBeforeTies(_, _)
InsertBeforeTies(sorted, it) ==
    IF sorted = <<>> THEN <<it>>
    ELSE IF Head(sorted).position - it.position < 0
         THEN <<Head(sorted)>> \o InsertBeforeTies(Tail(sorted), it)
         ELSE <<it>> \o sorted

\* Array.prototype.sort((a, b) => a.position - b.position): a stable sort.
RECURSIVE InsertByPosition(_, _)
InsertByPosition(sorted, it) ==
    IF sorted = <<>> THEN <<it>>
    ELSE IF Head(sorted).position - it.position <= 0
         THEN <<Head(sorted)>> \o InsertByPosition(Tail(sorted), it)
         ELSE <<it>> \o sorted

RECURSIVE SortByPosition(_)
SortByPosition(items) ==
    IF items = <<>> THEN <<>>
    ELSE InsertByPosition(SortByPosition(SubSeq(items, 1, Len(items) - 1)),
                          items[Len(items)])

\* ------------------------------------------------------------- handlers
\* What a handler does between the end of readDatabase and its response or
\* its call of writeDatabase: db is the in-memory document afterwards, save
\* whether writeDatabase(db) is awaited before the response is sent.
Result(d, save, status, val, err) ==
    [db |-> d, save |-> save, status |-> status, val |-> val, err |-> err]

NotFound(d) == Result(d, FALSE, 404, <<>>, "NotFound")

\* Mutant of NameRejected: the name.trim() === '' test is missing.
NameRejectedNoTrim(name) ==
    \/ name.t = "undefined"
    \/ name.t # "string"
    \/ name.s = <<>>

\* !name || typeof name !== 'string' || name.trim() === ''
NameRejected(name) ==
    \/ name.t = "undefined"
    \/ name.t # "string"
    \/ name.s = <<>>
    \/ Trim(name.s) = <<>>

\* Mutant of NewListId: the + 1 is missing.
NewListIdNoIncrement(lists) ==
    IF Len(lists) > 0 THEN Max({lists[i].id : i \in 1..Len(lists)}) ELSE 1

NewListId(lists) ==
    IF Len(lists) > 0 THEN Max({lists[i].id : i \in 1..Len(lists)}) + 1 ELSE 1

\* Mutant of NewItemId: the number of items plus one.
NewItemIdByCount(items) == Len(items) + 1

\* Mutant of NewItemId: the + 1 is missing.
NewItemIdNoIncrement(items) ==
    IF Len(items) > 0 THEN Max({items[i].id : i \in 1..Len(items)}) ELSE 1

NewItemId(items) ==
    IF Len(items) > 0 THEN Max({items[i].id : i \in 1..Len(items)}) + 1 ELSE 1

\* Mutant of NewPosition: the number of items.
NewPositionByCount(items) == Len(items)

\* Mutant of NewPosition: the + 1 is missing.
NewPositionNoIncrement(items) ==
    IF Len(items) > 0
    THEN Max({items[i].position : i \in 1..Len(items)})
    ELSE 0

NewPosition(items) ==
    IF Len(items) > 0
    THEN Max({items[i].position : i \in 1..Len(items)}) + 1
    ELSE 0

GetLists(d) ==
    Result(d, FALSE, 200,
           [i \in 1..Len(d.lists) |->
               [id |-> d.lists[i].id, name |-> d.lists[i].name]],
           "")

PostLists(d, name) ==
    LET newList == [id |-> NewListId(d.lists), name |-> Trim(name.s),
                    items |-> <<>>]
    IN  Result([d EXCEPT !.lists = Append(@, newList)], TRUE, 201,
               <<newList>>, "")

\* Mutant of GetGroceries: the items are sent in storage order.
GetGroceriesUnsorted(d, listId) ==
    LET k == FindIndex(d.lists, listId)
    IN  IF k = 0 THEN NotFound(d)
        ELSE Result(d, FALSE, 200, d.lists[k].items, "")

\* Mutant of GetGroceries: the sorted document is saved before the
\* response.
GetGroceriesSaving(d, listId) ==
    LET k == FindIndex(d.lists, listId)
    IN  IF k = 0 THEN NotFound(d)
        ELSE LET sorted == SortByPosition(d.lists[k].items)
             IN  Result([d EXCEPT !.lists[k].items = sorted], TRUE, 200,
                        sorted, "")

GetGroceries(d, listId) ==
    LET k == FindIndex(d.lists, listId)
    IN  IF k = 0 THEN NotFound(d)
        ELSE LET sorted == SortByPosition(d.lists[k].items)
             IN  Result([d EXCEPT !.lists[k].items = sorted], FALSE, 200,
                        sorted, "")

PostGroceries(d, listId, name) ==
    LET k == FindIndex(d.lists, listId)
    IN  IF k = 0 THEN NotFound(d)
        ELSE IF name.t # "string"
             THEN Result(d, FALSE, 500, <<>>, "TypeError")
             ELSE LET items == d.lists[k].items
                      newItem == [id |-> NewItemId(items),
                                  name |-> Trim(name.s),
                                  checked |-> FALSE,
                                  position |-> NewPosition(items)]
                  IN  Result([d EXCEPT !.lists[k].items = Append(@, newItem)],
                             TRUE, 201, <<newItem>>, "")

\* new Map(items.map(item => [item.id, item])).get(id): the last item that
\* carries the id, 0 when there is none.
MapGet(items, id) ==
    IF \E i \in 1..Len(items) : items[i].id = id
    THEN Max({i \in 1..Len(items) : items[i].id = id})
    ELSE 0

\* Mutant of ForEachOrdered: the index counts the matched ids only, so the
\* positions are compacted.
RECURSIVE ForEachOrderedCompacting(_, _, _)
ForEachOrderedCompacting(items, orderedIds, n) ==
    IF n > Len(orderedIds) THEN items
    ELSE LET m == MapGet(items, orderedIds[n])
             matched == Cardinality({i \in 1..(n - 1) :
                                        MapGet(items, orderedIds[i]) # 0})
             next == IF m # 0 THEN [items EXCEPT ![m].position = matched]
                     ELSE items
         IN  ForEachOrderedCompacting(next, orderedIds, n + 1)

\* Mutant of ForEachOrdered: item.position += index.
RECURSIVE ForEachOrderedAdding(_, _, _)
ForEachOrderedAdding(items, orderedIds, n) ==
    IF n > Len(orderedIds) THEN items
    ELSE LET m == MapGet(items, orderedIds[n])
             next == IF m # 0 THEN [items EXCEPT ![m].position = @ + n - 1]
                     ELSE items
         IN  ForEachOrderedAdding(next, orderedIds, n + 1)

\* orderedIds.forEach((id, index) => ...) from the element at 1-based place n.
RECURSIVE ForEachOrdered(_, _, _)
ForEachOrdered(items, orderedIds, n) ==
    IF n > Len(orderedIds) THEN items
    ELSE LET m == MapGet(items, orderedIds[n])
             next == IF m # 0 THEN [items EXCEPT ![m].position = n - 1]
                     ELSE items
         IN  ForEachOrdered(next, orderedIds, n + 1)

\* Mutant of Reorder: the items are sorted by position before the save.
ReorderSorting(d, listId, orderedIds) ==
    LET k == FindIndex(d.lists, listId)
    IN  IF k = 0 THEN NotFound(d)
        ELSE Result([d EXCEPT !.lists[k].items =
                        SortByPosition(ForEachOrdered(@, orderedIds, 1))],
                    TRUE, 200, <<>>, "")

Reorder(d, listId, orderedIds) ==
    LET k == FindIndex(d.lists, listId)
    IN  IF k = 0 THEN NotFound(d)
        ELSE Result([d EXCEPT !.lists[k].items =
                                  ForEachOrdered(@, orderedIds, 1)],
                    TRUE, 200, <<>>, "")

\* Mutant of Toggle: the if (!item) return is missing, so item.checked
\* throws on undefined.
ToggleUnguarded(d, listId, itemId) ==
    LET k == FindIndex(d.lists, listId)
    IN  IF k = 0 THEN NotFound(d)
        ELSE LET m == FindIndex(d.lists[k].items, itemId)
             IN  IF m = 0 THEN Result(d, FALSE, 500, <<>>, "TypeError")
                 ELSE LET nd == [d EXCEPT !.lists[k].items[m].checked = ~@]
                      IN  Result(nd, TRUE, 200, <<nd.lists[k].items[m]>>, "")

\* Mutant of Toggle: item.checked = true instead of !item.checked.
ToggleSetting(d, listId, itemId) ==
    LET k == FindIndex(d.lists, listId)
    IN  IF k = 0 THEN NotFound(d)
        ELSE LET m == FindIndex(d.lists[k].items, itemId)
             IN  IF m = 0 THEN NotFound(d)
                 ELSE LET nd == [d EXCEPT !.lists[k].items[m].checked = TRUE]
                      IN  Result(nd, TRUE, 200, <<nd.lists[k].items[m]>>, "")

Toggle(d, listId, itemId) ==
    LET k == FindIndex(d.lists, listId)
    IN  IF k = 0 THEN NotFound(d)
        ELSE LET m == FindIndex(d.lists[k].items, itemId)
             IN  IF m = 0 THEN NotFound(d)
                 ELSE LET nd == [d EXCEPT !.lists[k].items[m].checked = ~@]
                      IN  Result(nd, TRUE, 200, <<nd.lists[k].items[m]>>, "")

\* Mutant of Filter: i.id < itemId, which also drops the items added later.
FilterBelow(items, itemId) == SelectSeq(items, LAMBDA i : i.id < itemId)

Filter(items, itemId) == SelectSeq(items, LAMBDA i : i.id # itemId)

DeleteItem(d, listId, itemId) ==
    LET k == FindIndex(d.lists, listId)
    IN  IF k = 0 THEN NotFound(d)
        ELSE LET rest == Filter(d.lists[k].items, itemId)
                 nd == [d EXCEPT !.lists[k].items = rest]
             IN  IF Len(rest) = Len(d.lists[k].items)
                 THEN Result(nd, FALSE, 404, <<>>, "NotFound")
                 ELSE Result(nd, TRUE, 204, <<>>, "")

\* -------------------------------------------------------------- requests
Req(op, list, item, name, ids) ==
    [op |-> op, list |-> list, item |-> item, name |-> name, ids |-> ids]

Arr(v) == [arr |-> TRUE, v |-> v]
NotArr == [arr |-> FALSE, v |-> <<>>]

NoReq == Req("none", <<>>, <<>>, Undef, NotArr)

\* The readDatabase() call of the app.listen callback.
BootReq == Req("boot", <<>>, <<>>, Undef, NotArr)

\* Route parameters: the decimal ids that can exist, and a non-numeric one.
RawIds(n) == {<<Digits[d + 1]>> : d \in 1..n} \cup {<<"x">>}

NameInputs == {Str(<<" ", "a">>), Str(<<" ">>), Str(<<>>), Num, Undef}

RECURSIVE SeqsUpTo(_, _)
SeqsUpTo(S, n) ==
    IF n = 0 THEN {<<>>}
    ELSE LET shorter == SeqsUpTo(S, n - 1)
         IN  shorter \cup {Append(q, x) : q \in shorter, x \in S}

OrderInputs == {Arr(v) : v \in SeqsUpTo(1..MaxId, MaxOrd)} \cup {NotArr}

Requests(nLists) ==
    {Req("getLists", <<>>, <<>>, Undef, NotArr)}
    \cup {Req("postLists", <<>>, <<>>, n, NotArr) : n \in NameInputs}
    \cup {Req("getGroceries", l, <<>>, Undef, NotArr) : l \in RawIds(nLists)}
    \cup {Req("postGroceries", l, <<>>, n, NotArr) :
             l \in RawIds(nLists), n \in NameInputs}
    \cup {Req("reorder", l, <<>>, Undef, o) :
             l \in RawIds(nLists), o \in OrderInputs}
    \cup {Req("toggle", l, i, Undef, NotArr) :
             l \in RawIds(nLists), i \in RawIds(MaxId)}
    \cup {Req("delete", l, i, Undef, NotArr) :
             l \in RawIds(nLists), i \in RawIds(MaxId)}

\* The requests that are issued concurrently.
ConcRequests ==
    {Req("postLists", <<>>, <<>>, Str(<<" ", "a">>), NotArr),
     Req("postGroceries", <<"1">>, <<>>, Str(<<" ", "a">>), NotArr),
     Req("toggle", <<"1">>, <<"1">>, Undef, NotArr),
     Req("delete", <<"1">>, <<"1">>, Undef, NotArr),
     Req("getGroceries", <<"1">>, <<>>, Undef, NotArr)}

\* The checks a handler makes before it calls readDatabase.
RejectedEarly(r) ==
    \/ r.op = "postLists" /\ NameRejected(r.name)
    \/ r.op = "reorder" /\ ~r.ids.arr

\* The handler of request r applied to the document d that readDatabase
\* returned.
Handler(r, d) ==
    CASE r.op = "getLists"      -> GetLists(d)
      [] r.op = "postLists"     -> PostLists(d, r.name)
      [] r.op = "getGroceries"  -> GetGroceries(d, ParseInt(r.list))
      [] r.op = "postGroceries" -> PostGroceries(d, ParseInt(r.list), r.name)
      [] r.op = "reorder"       -> Reorder(d, ParseInt(r.list), r.ids.v)
      [] r.op = "toggle"        ->
             Toggle(d, ParseInt(r.list), ParseInt(r.item))
      [] r.op = "delete"        ->
             DeleteItem(d, ParseInt(r.list), ParseInt(r.item))
      [] OTHER                  -> Result(d, FALSE, 0, <<>>, "")

\* ----------------------------------------------------------------- state
VARIABLES
    file,      \* database.json: exists, valid (parses), doc, len (bytes)
    pc,        \* per request slot: where its handler is suspended
    req,       \* per request slot: the request being handled
    db,        \* per request slot: the handler's in-memory document
    pre,       \* per request slot: the document readDatabase returned
    resp,      \* per request slot: the response (sent when pc = "done")
    prev,      \* the request answered last and its status, when it saved
               \* the document (or was the start-up load) and no request
               \* has started since; for a toggle, the document it loaded
    repeatOf,  \* per request slot: the status the same request got when
               \* it was the one answered just before, else 0
    before,    \* per request slot, for a toggle repeated right after
               \* itself: the document the first of the two loaded
    follows,   \* per request slot: the request answered just before it,
               \* for a GET of items after a successful reorder, for an
               \* add after a successful delete in the same list, and for
               \* a request after the start-up load
    lastSave,  \* the slot whose writeDatabase(db) completed last
    raced,     \* per slot: the slots that had loaded and not yet saved
               \* when this slot's load completed
    issued     \* list ids returned by POST /lists so far

vars ==
    <<file, pc, req, db, pre, resp, prev, repeatOf, before, follows, lastSave,
      raced, issued>>

NoResp == [status |-> 0, val |-> <<>>, err |-> ""]

NoPrev == [req |-> NoReq, status |-> 0, doc |-> EmptyDoc]

Absent == [exists |-> FALSE, valid |-> FALSE, doc |-> EmptyDoc, len |-> 0]

\* fs.writeFile opens with flag 'w': the file is created or truncated.
Truncated == [exists |-> TRUE, valid |-> FALSE, doc |-> EmptyDoc, len |-> 0]

\* The write of the serialised document at offset 0 of the opened file.
\* Bytes another writer put beyond its end since the truncation stay.
Written(f, d) ==
    IF StringifyBytes(d) >= f.len
    THEN [exists |-> TRUE, valid |-> TRUE, doc |-> d,
          len |-> StringifyBytes(d)]
    ELSE [exists |-> TRUE, valid |-> FALSE, doc |-> EmptyDoc, len |-> f.len]

RECURSIVE CountItems(_)
CountItems(lists) ==
    IF lists = <<>> THEN 0
    ELSE Len(Head(lists).items) + CountItems(Tail(lists))

\* The bounds of the model on a document: lim.lists lists, lim.items items.
Limits(nLists, nItems) == [lists |-> nLists, items |-> nItems]

InBounds(d, lim) ==
    /\ Len(d.lists) <= lim.lists
    /\ CountItems(d.lists) <= lim.items
    /\ \A k \in 1..Len(d.lists) :
          /\ \A m \in 1..Len(d.lists[k].items) :
                /\ d.lists[k].items[m].id <= MaxId
                /\ d.lists[k].items[m].position <= MaxPos

InitWith(f) ==
    /\ file = f
    /\ pc = [p \in Procs |-> IF p = "p1" THEN "read" ELSE "idle"]
    /\ req = [p \in Procs |-> IF p = "p1" THEN BootReq ELSE NoReq]
    /\ db = [p \in Procs |-> EmptyDoc]
    /\ pre = [p \in Procs |-> EmptyDoc]
    /\ resp = [p \in Procs |-> NoResp]
    /\ prev = NoPrev
    /\ repeatOf = [p \in Procs |-> 0]
    /\ before = [p \in Procs |-> EmptyDoc]
    /\ follows = [p \in Procs |-> NoReq]
    /\ lastSave = "none"
    /\ raced = [p \in Procs |-> {}]
    /\ issued = {}

\* The server starts on a machine without database.json; the listen
\* callback has called readDatabase.
Init == InitWith(Absent)

\* A request arrives and its handler runs up to its first await.
Start(p, r) ==
    /\ pc[p] = "idle"
    /\ req' = [req EXCEPT ![p] = r]
    /\ repeatOf' = [repeatOf EXCEPT ![p] =
           IF r = prev.req THEN prev.status ELSE 0]
    /\ before' = [before EXCEPT ![p] =
           IF r = prev.req THEN prev.doc ELSE EmptyDoc]
    /\ follows' = [follows EXCEPT ![p] =
           IF \/ r.op = "getGroceries" /\ prev.req.op = "reorder"
              \/ /\ r.op = "postGroceries"
                 /\ prev.req.op = "delete"
                 /\ r.list = prev.req.list
              \/ prev.req.op = "boot"
           THEN prev.req
           ELSE NoReq]
    /\ prev' = NoPrev
    /\ IF RejectedEarly(r)
       THEN /\ pc' = [pc EXCEPT ![p] = "done"]
            /\ resp' = [resp EXCEPT ![p] =
                   [status |-> 400, val |-> <<>>, err |-> "InvalidArgument"]]
       ELSE /\ pc' = [pc EXCEPT ![p] = "read"]
            /\ UNCHANGED resp
    /\ UNCHANGED <<file, db, pre, lastSave, raced, issued>>

\* readDatabase has returned d: the handler runs to its response or to its
\* call of writeDatabase.
Proceed(p, d, lim) ==
    LET h == Handler(req[p], d)
    IN  /\ InBounds(h.db, lim)
        /\ pre' = [pre EXCEPT ![p] = d]
        /\ db' = [db EXCEPT ![p] = h.db]
        /\ resp' = [resp EXCEPT ![p] =
               [status |-> h.status, val |-> h.val, err |-> h.err]]
        /\ pc' = [pc EXCEPT ![p] = IF h.save THEN "wopen" ELSE "done"]
        /\ raced' = [raced EXCEPT ![p] =
               IF h.save
               THEN {q \in Procs \ {p} : pc[q] \in {"wopen", "wwrite"}}
               ELSE {}]

\* fs.readFile and JSON.parse of readDatabase complete.
ReadDatabase(p, lim) ==
    /\ pc[p] = "read"
    /\ \/ /\ ~file.exists
          /\ pc' = [pc EXCEPT ![p] = "iopen"]
          /\ UNCHANGED <<db, pre, resp, raced>>
       \/ /\ file.exists /\ ~file.valid
          /\ pc' = [pc EXCEPT ![p] = "done"]
          /\ resp' = [resp EXCEPT ![p] =
                 [status |-> IF req[p].op = "boot" THEN 0 ELSE 500,
                  val |-> <<>>, err |-> "SyntaxError"]]
          /\ UNCHANGED <<db, pre, raced>>
       \/ /\ file.exists /\ file.valid
          /\ Proceed(p, file.doc, lim)
    /\ UNCHANGED <<file, req, prev, repeatOf, before, follows, lastSave,
                   issued>>

\* fs.writeFile of writeDatabase opens the file.
WriteFileOpen(p) ==
    /\ pc[p] \in {"iopen", "wopen"}
    /\ file' = Truncated
    /\ pc' = [pc EXCEPT ![p] = IF pc[p] = "iopen" THEN "iwrite" ELSE "wwrite"]
    /\ UNCHANGED <<req, db, pre, resp, prev, repeatOf, before, follows,
                   lastSave, raced, issued>>

\* Mutant of WriteInitialData: readDatabase returns initialData without
\* the bytes having been written.
WriteInitialDataSkipped(p, lim) ==
    /\ pc[p] = "iwrite"
    /\ file' = file
    /\ Proceed(p, initialData, lim)
    /\ UNCHANGED <<req, prev, repeatOf, before, follows, lastSave, issued>>

\* writeDatabase(initialData) of readDatabase completes and readDatabase
\* returns initialData.
WriteInitialData(p, lim) ==
    /\ pc[p] = "iwrite"
    /\ file' = Written(file, initialData)
    /\ Proceed(p, initialData, lim)
    /\ UNCHANGED <<req, prev, repeatOf, before, follows, lastSave, issued>>

\* writeDatabase(db) of a handler completes and the response is sent.
WriteDatabaseData(p) ==
    /\ pc[p] = "wwrite"
    /\ file' = Written(file, db[p])
    /\ pc' = [pc EXCEPT ![p] = "done"]
    /\ lastSave' = p
    /\ issued' = IF req[p].op = "postLists"
                 THEN issued \cup {resp[p].val[1].id}
                 ELSE issued
    /\ UNCHANGED <<req, db, pre, resp, prev, repeatOf, before, follows, raced>>

\* The request of slot p is answered with success after a writeDatabase(db).
Saved(p) ==
    /\ pc[p] = "done"
    /\ req[p].op \in {"postLists", "postGroceries", "reorder", "toggle",
                      "delete"}
    /\ resp[p].status \in {200, 201, 204}

\* The request is over; its slot takes the next one.
Return(p) ==
    /\ pc[p] = "done"
    /\ pc' = [pc EXCEPT ![p] = "idle"]
    /\ prev' = IF Saved(p) \/ req[p].op = "boot"
               THEN [req |-> req[p], status |-> resp[p].status,
                     doc |-> IF req[p].op = "toggle" THEN pre[p]
                             ELSE EmptyDoc]
               ELSE NoPrev
    /\ req' = [req EXCEPT ![p] = NoReq]
    /\ db' = [db EXCEPT ![p] = EmptyDoc]
    /\ pre' = [pre EXCEPT ![p] = EmptyDoc]
    /\ resp' = [resp EXCEPT ![p] = NoResp]
    /\ repeatOf' = [repeatOf EXCEPT ![p] = 0]
    /\ before' = [before EXCEPT ![p] = EmptyDoc]
    /\ follows' = [follows EXCEPT ![p] = NoReq]
    /\ raced' = [q \in Procs |-> IF q = p THEN {} ELSE raced[q] \ {p}]
    /\ lastSave' = IF lastSave = p THEN "none" ELSE lastSave
    /\ UNCHANGED <<file, issued>>

Step(p, lim) ==
    \/ ReadDatabase(p, lim)
    \/ WriteFileOpen(p)
    \/ WriteInitialData(p, lim)
    \/ WriteDatabaseData(p)
    \/ Return(p)

\* Requests handled one at a time, after the start-up load.
Sequential(reqs, lim) ==
    \/ \E r \in reqs : Start("p1", r)
    \/ Step("p1", lim)

Next == Sequential(Requests(MaxLists), Limits(MaxLists, MaxItems))

Spec == Init /\ [][Next]_vars

\* The same with more lists and fewer items.
NextLists ==
    Sequential(Requests(MaxListsWide), Limits(MaxListsWide, MaxItemsFew))

SpecLists == Init /\ [][NextLists]_vars

\* The server starts without database.json, or with one that holds a
\* document without lists.
InitSeeded ==
    \/ InitWith(Absent)
    \/ InitWith(Written(Absent, EmptyDoc))

\* The requests that create and remove lists and items.
AllocRequests ==
    {r \in Requests(MaxLists) :
        r.op \in {"getLists", "postLists", "postGroceries", "delete"}}

NextSeeded == Sequential(AllocRequests, Limits(MaxLists, MaxItems))

SpecSeeded == InitSeeded /\ [][NextSeeded]_vars

\* The requests that create lists, with every kind of name, and list them.
NameRequests ==
    {r \in Requests(MaxLists) : r.op \in {"getLists", "postLists"}}

\* These requests handled concurrently with each other and with the
\* start-up load.
NextNames ==
    \/ \E p \in Procs : \E r \in NameRequests : Start(p, r)
    \/ \E p \in Procs : Step(p, Limits(MaxLists, MaxItemsFew))

SpecNames == Init /\ [][NextNames]_vars

\* The orderedIds of request r are the ids of the items that the list it
\* names holds in document d, each once, in some order.
PermutationOf(r, d) ==
    \A k \in 1..Len(d.lists) :
        d.lists[k].id = ParseInt(r.list) =>
            /\ Len(r.ids.v) = Len(d.lists[k].items)
            /\ Range(r.ids.v)
                   = {d.lists[k].items[m].id : m \in 1..Len(d.lists[k].items)}

\* Requests handled one at a time by clients that reorder a list only with
\* a permutation of the ids of the items it holds.
NextPerm ==
    \/ \E r \in Requests(MaxLists) :
          /\ r.op = "reorder" =>
                r.ids.arr /\ file.valid /\ PermutationOf(r, file.doc)
          /\ Start("p1", r)
    \/ Step("p1", Limits(MaxLists, MaxItems))

SpecPerm == Init /\ [][NextPerm]_vars

\* Requests handled concurrently.
NextConc ==
    \/ \E p \in Procs : \E r \in ConcRequests : Start(p, r)
    \/ \E p \in Procs : Step(p, Limits(MaxLists, MaxItems))

SpecConc == Init /\ [][NextConc]_vars

\* ---------------------------------------------------------------- views
\* The request of slot p with operation op has been answered with status.
Answered(p, op, status) ==
    pc[p] = "done" /\ req[p].op = op /\ resp[p].status = status

\* The places of the list that the :listId parameter of slot p names.
Target(p, d) ==
    {k \in 1..Len(d.lists) : d.lists[k].id = ParseInt(req[p].list)}

\* The 1-based places of id in the sequence ids.
Places(ids, id) == {i \in 1..Len(ids) : ids[i] = id}

Ids(items) == [m \in 1..Len(items) |-> items[m].id]

\* A name that is missing, not a string, empty or made of blanks only.
InvalidName(name) ==
    name.t # "string" \/ \A i \in 1..Len(name.s) : name.s[i] = " "

\* -------------------------------------------------------------- claims
\* C1: after a successful reorder, every item of the list whose id occurs
\* in orderedIds has as position the zero-based index of the last occurrence
\* of its id in orderedIds; ids that match no item consume their index.
C1_ReorderPositions ==
    \A p \in Procs :
        Answered(p, "reorder", 200) =>
            /\ file.valid
            /\ Target(p, file.doc) # {}
            /\ \A k \in Target(p, file.doc) :
                  \A m \in 1..Len(file.doc.lists[k].items) :
                      LET it == file.doc.lists[k].items[m]
                          at == Places(req[p].ids.v, it.id)
                      IN  at # {} => it.position = Max(at) - 1

\* A reorder with orderedIds [2, 1] on a list that holds item 1 and no item
\* 2: the unmatched id took index 0 and item 1 got position 1.
C1_Witness ==
    \E p \in Procs :
        /\ Answered(p, "reorder", 200)
        /\ req[p].ids.v = <<2, 1>>
        /\ \E k \in Target(p, file.doc) :
              /\ Ids(file.doc.lists[k].items) = <<1>>
              /\ file.doc.lists[k].items[1].position = 1
              /\ pre[p].lists[k].items[1].position = 0

\* C2: a successful reorder changes nothing but the positions of the items
\* of the target list whose id occurs in orderedIds.
C2_ReorderFrame ==
    \A p \in Procs :
        Answered(p, "reorder", 200) =>
            /\ file.valid
            /\ Len(file.doc.lists) = Len(pre[p].lists)
            /\ \A k \in 1..Len(pre[p].lists) :
                  LET old == pre[p].lists[k]
                      new == file.doc.lists[k]
                  IN  /\ new.id = old.id
                      /\ new.name = old.name
                      /\ Len(new.items) = Len(old.items)
                      /\ k \notin Target(p, pre[p]) => new = old
                      /\ \A m \in 1..Len(old.items) :
                            /\ new.items[m].id = old.items[m].id
                            /\ new.items[m].name = old.items[m].name
                            /\ new.items[m].checked = old.items[m].checked
                            /\ Places(req[p].ids.v, old.items[m].id) = {}
                                  => new.items[m].position
                                         = old.items[m].position

\* A reorder that moved one item of a two-item list and did not mention the
\* other, while the document holds a second list.
C2_Witness ==
    \E p \in Procs :
        /\ Answered(p, "reorder", 200)
        /\ Len(pre[p].lists) = 2
        /\ \E k \in Target(p, pre[p]) :
              /\ Len(pre[p].lists[k].items) = 2
              /\ \E m, n \in 1..2 :
                    /\ Places(req[p].ids.v, pre[p].lists[k].items[m].id) = {}
                    /\ pre[p].lists[k].items[m].position > 0
                    /\ file.doc.lists[k].items[n].position
                           # pre[p].lists[k].items[n].position

\* C3: a reorder repeated with the same list and orderedIds right after a
\* successful one leaves the persisted document as the first one left it.
C3_ReorderIdempotent ==
    \A p \in Procs :
        (Answered(p, "reorder", 200) /\ repeatOf[p] = 200) =>
            file.valid /\ file.doc = pre[p]

\* The second of two identical reorders of two ids, one of which matches no
\* item, on a list of two items where a mentioned item has position 1.
C3_Witness ==
    \E p \in Procs :
        /\ Answered(p, "reorder", 200)
        /\ repeatOf[p] = 200
        /\ Len(req[p].ids.v) = 2
        /\ \E k \in Target(p, file.doc) :
              /\ Len(file.doc.lists[k].items) = 2
              /\ \E i \in 1..2 :
                    Places(Ids(file.doc.lists[k].items), req[p].ids.v[i]) = {}
              /\ \E m \in 1..2 :
                    file.doc.lists[k].items[m].position = 1
                    /\ Places(req[p].ids.v, file.doc.lists[k].items[m].id) # {}

\* C4: when two mutating requests both complete their load before either
\* completes its save, both succeed and the persisted document is the one
\* of the request whose save completed last.
C4_LastSaveWins ==
    \A p, q \in Procs :
        (/\ p # q
         /\ Saved(p)
         /\ Saved(q)
         /\ q \in raced[p]
         /\ lastSave \in {p, q}) =>
            file.valid /\ file.doc = db[lastSave]

\* C5: a load that interleaves with another request's save returns the
\* complete previous or the complete new document, so no request fails
\* because its load found the store emptied or partly overwritten by a
\* save that is in progress.
C5_SaveAtomicForReaders ==
    \A p, q \in Procs :
        ~(/\ pc[q] = "wwrite"
          /\ pc[p] = "done"
          /\ resp[p].status = 500
          /\ resp[p].err = "SyntaxError")

\* C6: POST /lists gives the new list the id max(existing list ids) + 1 and
\* POST groceries gives the new item max(existing item ids of the list) + 1;
\* the id is 1 when there is no list, or no item in the list.
IsNextId(new, ids) ==
    /\ ids = {} => new = 1
    /\ ids # {} => (new - 1) \in ids /\ \A x \in ids : x < new

C6_IdAllocation ==
    \A p \in Procs :
        /\ Answered(p, "postLists", 201) =>
              /\ IsNextId(resp[p].val[1].id, Range(Ids(pre[p].lists)))
              /\ file.valid
              /\ file.doc.lists = Append(pre[p].lists, resp[p].val[1])
        /\ Answered(p, "postGroceries", 201) =>
              /\ file.valid
              /\ Target(p, pre[p]) # {}
              /\ \A k \in Target(p, pre[p]) :
                    /\ IsNextId(resp[p].val[1].id,
                                Range(Ids(pre[p].lists[k].items)))
                    /\ file.doc.lists[k].items
                           = Append(pre[p].lists[k].items, resp[p].val[1])

\* An item added with id 3 to a list whose only item has id 2, in a
\* document whose first list was created, with id 1, when there was none.
C6_Witness ==
    \E p \in Procs :
        /\ Answered(p, "postGroceries", 201)
        /\ resp[p].val[1].id = 3
        /\ pre[p].lists[1].id = 1
        /\ pre[p].lists[1].name = <<"a">>
        /\ Len(pre[p].lists) = 2
        /\ \E k \in Target(p, pre[p]) : Ids(pre[p].lists[k].items) = <<2>>

\* C7: the ids of the lists are pairwise distinct, a list keeps its id, and
\* POST /lists never returns an id it returned before.
C7_ListIdsStable ==
    /\ file.valid =>
          \A i, j \in 1..Len(file.doc.lists) :
              file.doc.lists[i].id = file.doc.lists[j].id => i = j
    /\ \A p \in Procs :
          /\ (pc[p] \in {"wopen", "wwrite"} /\ req[p].op = "postLists") =>
                resp[p].val[1].id \notin issued
          /\ Saved(p) =>
                /\ file.valid
                /\ Len(file.doc.lists) >= Len(pre[p].lists)
                /\ \A k \in 1..Len(pre[p].lists) :
                      file.doc.lists[k].id = pre[p].lists[k].id

\* The second POST /lists returns 3 after the first returned 2.
C7_Witness ==
    \E p \in Procs :
        /\ Answered(p, "postLists", 201)
        /\ issued = {2, 3}
        /\ resp[p].val[1].id = 3
        /\ Ids(file.doc.lists) = <<1, 2, 3>>

\* C8: POST groceries gives the new item the position max(existing
\* positions of the list) + 1, or 0 in an empty list, and checked = false,
\* and a GET of the items that follows returns the new item last.
C8_AddPosition ==
    \A p \in Procs :
        Answered(p, "postGroceries", 201) =>
            /\ file.valid
            /\ \A k \in Target(p, pre[p]) :
                  LET old == pre[p].lists[k].items
                      new == resp[p].val[1]
                      got == GetGroceries(file.doc, ParseInt(req[p].list)).val
                  IN  /\ old = <<>> => new.position = 0
                      /\ old # <<>> =>
                            /\ \E m \in 1..Len(old) :
                                  new.position = old[m].position + 1
                            /\ \A m \in 1..Len(old) :
                                  new.position > old[m].position
                      /\ new.checked = FALSE
                      /\ file.doc.lists[k].items = Append(old, new)
                      /\ got[Len(got)] = new

\* An item added at position 2 to a list whose only item has position 1.
C8_Witness ==
    \E p \in Procs :
        /\ Answered(p, "postGroceries", 201)
        /\ resp[p].val[1].position = 2
        /\ \E k \in Target(p, pre[p]) :
              /\ Len(pre[p].lists[k].items) = 1
              /\ pre[p].lists[k].items[1].position = 1

\* C9: GET groceries returns exactly the items of the list in ascending
\* order of position, items of equal position in their storage order.
StoredAt(items, it) == Max(Places(Ids(items), it.id))

C9_ListItemsSorted ==
    \A p \in Procs :
        Answered(p, "getGroceries", 200) =>
            /\ file.valid
            /\ \A k \in Target(p, file.doc) :
                  LET stored == file.doc.lists[k].items
                      got == resp[p].val
                  IN  /\ Len(got) = Len(stored)
                      /\ Range(got) = Range(stored)
                      /\ \A i, j \in 1..Len(got) :
                            i < j =>
                               /\ got[i].position <= got[j].position
                               /\ got[i].position = got[j].position =>
                                     StoredAt(stored, got[i])
                                         < StoredAt(stored, got[j])

\* A GET of a list whose two items share a position.
C9_Witness ==
    \E p \in Procs :
        /\ Answered(p, "getGroceries", 200)
        /\ Len(resp[p].val) = 2
        /\ resp[p].val[1].position = resp[p].val[2].position

\* C10: a GET of the items right after a successful reorder whose orderedIds
\* is a permutation of the ids of the items of the list returns the items
\* in the order of orderedIds, with positions 0, 1, ...
IsPermutationOf(ids, items) ==
    /\ Len(ids) = Len(items)
    /\ Range(ids) = Range(Ids(items))

C10_ReorderThenList ==
    \A p \in Procs :
        (/\ Answered(p, "getGroceries", 200)
         /\ follows[p].op = "reorder"
         /\ follows[p].list = req[p].list
         /\ IsPermutationOf(follows[p].ids.v, resp[p].val)) =>
            /\ Ids(resp[p].val) = follows[p].ids.v
            /\ \A i \in 1..Len(resp[p].val) : resp[p].val[i].position = i - 1

\* Items 1 and 2 added in this order, reorder [2, 1], GET: item 2, item 1.
C10_Witness ==
    \E p \in Procs :
        /\ Answered(p, "getGroceries", 200)
        /\ follows[p].op = "reorder"
        /\ follows[p].list = req[p].list
        /\ follows[p].ids.v = <<2, 1>>
        /\ Ids(resp[p].val) = <<2, 1>>
        /\ \E k \in Target(p, file.doc) :
              Ids(file.doc.lists[k].items) = <<1, 2>>

\* C11: a successful delete removes exactly the item with the given id from
\* the target list and leaves the other items, their storage order and the
\* other lists as they were; the same delete repeated right after it is
\* answered NotFound and leaves the persisted document unchanged.
Without(items, m) == SubSeq(items, 1, m - 1) \o SubSeq(items, m + 1, Len(items))

C11_DeleteOnce ==
    \A p \in Procs :
        /\ Answered(p, "delete", 204) =>
              /\ file.valid
              /\ Target(p, pre[p]) # {}
              /\ Len(file.doc.lists) = Len(pre[p].lists)
              /\ \A k \in 1..Len(pre[p].lists) :
                    LET old == pre[p].lists[k]
                        new == file.doc.lists[k]
                    IN  /\ k \notin Target(p, pre[p]) => new = old
                        /\ k \in Target(p, pre[p]) =>
                              /\ new.id = old.id
                              /\ new.name = old.name
                              /\ \E m \in 1..Len(old.items) :
                                    /\ old.items[m].id = ParseInt(req[p].item)
                                    /\ new.items = Without(old.items, m)
        /\ (pc[p] = "done" /\ req[p].op = "delete" /\ repeatOf[p] = 204) =>
              /\ resp[p].status = 404
              /\ resp[p].err = "NotFound"
              /\ file.valid
              /\ file.doc = pre[p]

\* The second of two identical deletes, answered 404, where the first took
\* the first item of a list of two whose other item is checked, in a
\* document that holds a second list.
C11_Witness ==
    \E p \in Procs :
        /\ Answered(p, "delete", 404)
        /\ repeatOf[p] = 204
        /\ ParseInt(req[p].item) = 1
        /\ Len(file.doc.lists) = 2
        /\ \E k \in Target(p, file.doc) :
              /\ Ids(file.doc.lists[k].items) = <<2>>
              /\ file.doc.lists[k].items[1].checked
              /\ file.doc.lists[k].items[1].position = 1

\* C12: a POST groceries on an existing list with a name that is missing,
\* not a string, empty or whitespace-only is answered InvalidArgument (400,
\* not the 500 of a store failure and not a success), and the persisted
\* document stays as it was.
C12_AddItemNameRejected ==
    \A p \in Procs :
        (/\ pc[p] = "done"
         /\ req[p].op = "postGroceries"
         /\ Target(p, pre[p]) # {}
         /\ InvalidName(req[p].name)) =>
            /\ resp[p].status = 400
            /\ resp[p].err = "InvalidArgument"
            /\ file.valid
            /\ file.doc = pre[p]

\* C13: a POST /lists with a name that is missing, not a string, empty or
\* whitespace-only is answered InvalidArgument (400) without a load or a
\* save: no step of its handler changes database.json, which stays absent
\* when it was absent.
C13_CreateListRejected ==
    [][\A p \in Procs :
          LET r == IF pc[p] = "idle" THEN req'[p] ELSE req[p]
          IN  (/\ pc'[p] # pc[p]
               /\ r.op = "postLists"
               /\ InvalidName(r.name)) =>
                  /\ file' = file
                  /\ pc'[p] \in {"done", "idle"}
                  /\ pc'[p] = "done" =>
                        /\ resp'[p].status = 400
                        /\ resp'[p].err = "InvalidArgument"]_vars

\* A POST /lists with the name " " answered 400 while the start-up load
\* has not yet created database.json.
C13_Witness ==
    \E p \in Procs :
        /\ Answered(p, "postLists", 400)
        /\ req[p].name = Str(<<" ">>)
        /\ resp[p].err = "InvalidArgument"
        /\ ~file.exists

\* C14: a toggle with an item id that no item of the existing list carries,
\* and a toggle, delete, add, reorder or GET of items with a list id that
\* no list carries, is answered NotFound (404), never reaches
\* writeDatabase, and leaves the persisted document, every checked flag
\* included, as it was.
HasItem(p, d) ==
    \E k \in Target(p, d) :
        \E m \in 1..Len(d.lists[k].items) :
            d.lists[k].items[m].id = ParseInt(req[p].item)

\* The request of slot p names a list or, for a toggle, an item that the
\* document it loaded does not hold.
Misses(p) ==
    \/ /\ req[p].op \in {"getGroceries", "postGroceries", "toggle", "delete"}
       /\ Target(p, pre[p]) = {}
    \/ /\ req[p].op = "reorder"
       /\ req[p].ids.arr
       /\ Target(p, pre[p]) = {}
    \/ /\ req[p].op = "toggle"
       /\ Target(p, pre[p]) # {}
       /\ ~HasItem(p, pre[p])

C14_NotFoundNoSave ==
    \A p \in Procs :
        /\ (pc[p] = "done" /\ Misses(p)) =>
              /\ resp[p].status = 404
              /\ resp[p].err = "NotFound"
              /\ file.valid
              /\ file.doc = pre[p]
        /\ pc[p] \in {"wopen", "wwrite"} => ~Misses(p)

\* A toggle of item 2 answered 404 on a list whose only item, item 1, is
\* checked.
C14_Witness ==
    \E p \in Procs :
        /\ Answered(p, "toggle", 404)
        /\ ParseInt(req[p].item) = 2
        /\ \E k \in Target(p, file.doc) :
              /\ Ids(file.doc.lists[k].items) = <<1>>
              /\ file.doc.lists[k].items[1].checked

\* C15: a successful toggle changes nothing but the checked flag of the
\* item it names, and the same toggle repeated right after it leaves the
\* persisted document identical to the one before the first of the two.
C15_ToggleInvolution ==
    \A p \in Procs :
        Answered(p, "toggle", 200) =>
            /\ file.valid
            /\ Target(p, pre[p]) # {}
            /\ Len(file.doc.lists) = Len(pre[p].lists)
            /\ \A k \in 1..Len(pre[p].lists) :
                  LET old == pre[p].lists[k]
                      new == file.doc.lists[k]
                  IN  /\ k \notin Target(p, pre[p]) => new = old
                      /\ new.id = old.id
                      /\ new.name = old.name
                      /\ Len(new.items) = Len(old.items)
                      /\ \A m \in 1..Len(old.items) :
                            IF /\ k \in Target(p, pre[p])
                               /\ old.items[m].id = ParseInt(req[p].item)
                            THEN /\ new.items[m].checked
                                        = ~old.items[m].checked
                                 /\ new.items[m]
                                        = [old.items[m] EXCEPT
                                              !.checked = new.items[m].checked]
                                 /\ resp[p].val = <<new.items[m]>>
                            ELSE new.items[m] = old.items[m]
            /\ repeatOf[p] = 200 => file.doc = before[p]

\* The second of two identical toggles of the second item of a list of
\* two, which is unchecked again while the first item stays checked.
C15_Witness ==
    \E p \in Procs :
        /\ Answered(p, "toggle", 200)
        /\ repeatOf[p] = 200
        /\ ParseInt(req[p].item) = 2
        /\ file.doc = before[p]
        /\ file.doc # pre[p]
        /\ \E k \in Target(p, file.doc) :
              /\ Ids(file.doc.lists[k].items) = <<1, 2>>
              /\ file.doc.lists[k].items[1].checked
              /\ ~file.doc.lists[k].items[2].checked

\* C16: when database.json does not exist, the load returns a document with
\* exactly one list (id 1, the default name, no items) and leaves it in the
\* file, and the load of the request that follows returns the same
\* document.
C16_LazyInit ==
    LET fresh == [lists |-> <<[id |-> 1, name |-> DefaultName,
                               items |-> <<>>]>>]
    IN  \A p \in Procs :
            /\ (pc[p] = "done" /\ req[p].op = "boot") =>
                  /\ pre[p] = fresh
                  /\ file.exists
                  /\ file.valid
                  /\ file.doc = fresh
            /\ (pc[p] \in {"wopen", "done"}
                /\ follows[p].op = "boot"
                /\ ~RejectedEarly(req[p])) =>
                  pre[p] = fresh

\* A GET /lists right after the start-up load created the store: it
\* returns the default list alone.
C16_Witness ==
    \E p \in Procs :
        /\ Answered(p, "getLists", 200)
        /\ follows[p].op = "boot"
        /\ resp[p].val = <<[id |-> 1, name |-> DefaultName]>>
        /\ Len(pre[p].lists) = 1

\* C17: no step of a GET /lists, of a GET of items or of the start-up load
\* changes database.json, except the write of the default document by a
\* load that found no file; the sort of a GET of items stays in memory.
C17_ReadsDoNotWrite ==
    [][\A p \in Procs :
          LET r == IF pc[p] = "idle" THEN req'[p] ELSE req[p]
          IN  (/\ pc'[p] # pc[p]
               /\ r.op \in {"getLists", "getGroceries", "boot"}) =>
                  /\ pc[p] \notin {"iopen", "iwrite"} => file' = file
                  /\ pc[p] = "iopen" => ~file.exists
                  /\ pc[p] = "iwrite" =>
                        file'.valid /\ file'.doc = initialData]_vars

\* A GET of a list of two items answered in an order that is not the
\* storage order, which the file still holds.
C17_Witness ==
    \E p \in Procs :
        /\ Answered(p, "getGroceries", 200)
        /\ file.valid
        /\ file.doc = pre[p]
        /\ db[p] # file.doc
        /\ \E k \in Target(p, file.doc) :
              /\ Ids(file.doc.lists[k].items) = <<1, 2>>
              /\ Ids(resp[p].val) = <<2, 1>>

\* C18, as stated: the ids of the items of a list are pairwise distinct,
\* and an add never gives an item an id that an item of the list carried
\* before: an add right after the delete of item i does not return i.
C18_ItemIdsNeverReassigned ==
    /\ file.valid =>
          \A k \in 1..Len(file.doc.lists) :
              \A i, j \in 1..Len(file.doc.lists[k].items) :
                  file.doc.lists[k].items[i].id = file.doc.lists[k].items[j].id
                      => i = j
    /\ \A p \in Procs :
          (Answered(p, "postGroceries", 201) /\ follows[p].op = "delete") =>
              resp[p].val[1].id # ParseInt(follows[p].item)

\* C18, amended: the ids of the items of a list are pairwise distinct, and
\* an add gives the new item an id greater than the id of every item the
\* list holds at that moment (the id of a deleted item can come back).
C18_ItemIdsDistinct ==
    /\ file.valid =>
          \A k \in 1..Len(file.doc.lists) :
              \A i, j \in 1..Len(file.doc.lists[k].items) :
                  file.doc.lists[k].items[i].id = file.doc.lists[k].items[j].id
                      => i = j
    /\ \A p \in Procs :
          Answered(p, "postGroceries", 201) =>
              \A k \in Target(p, pre[p]) :
                  \A m \in 1..Len(pre[p].lists[k].items) :
                      pre[p].lists[k].items[m].id < resp[p].val[1].id

\* An add right after the delete of item 2 of a list that keeps item 1: the
\* new item is item 2 again.
C18_Witness ==
    \E p \in Procs :
        /\ Answered(p, "postGroceries", 201)
        /\ follows[p].op = "delete"
        /\ ParseInt(follows[p].item) = 2
        /\ resp[p].val[1].id = 2
        /\ \E k \in Target(p, file.doc) :
              Ids(file.doc.lists[k].items) = <<1, 2>>

\* C19: when every reorder passes the ids of the items of its list, each
\* once, and requests run one at a time, the positions of the items of
\* each list are pairwise distinct integers >= 0.
C19_PositionsDistinct ==
    file.valid =>
        \A k \in 1..Len(file.doc.lists) :
            LET items == file.doc.lists[k].items
            IN  \A i, j \in 1..Len(items) :
                    /\ items[i].position \in Nat
                    /\ items[i].position = items[j].position => i = j

\* Items 1 and 2 reordered as [2, 1], item 2 deleted, an item added: the
\* list holds item 1 at position 1 and the new item at position 2.
C19_Witness ==
    \E p \in Procs :
        /\ Answered(p, "postGroceries", 201)
        /\ follows[p].op = "delete"
        /\ \E k \in Target(p, file.doc) :
              /\ Ids(file.doc.lists[k].items) = <<1, 2>>
              /\ file.doc.lists[k].items[1].position = 1
              /\ file.doc.lists[k].items[2].position = 2

\* C20: under every interleaving, the start-up load included, the write of
\* the default document by readDatabase never replaces an existing
\* document: no step of it (the open, which truncates, or the write of the
\* bytes) is taken on a file that holds the document which a request
\* answered with success has saved.
C20_LazyInitKeepsSavedDocument ==
    [][\A p \in Procs :
          (pc[p] \in {"iopen", "iwrite"} /\ pc'[p] # pc[p]) =>
              ~\E q \in Procs \ {p} :
                  /\ Saved(q)
                  /\ file.valid
                  /\ file.doc = db[q]]_vars

====
